---------------------------- MODULE Spec2Model ----------------------------
(***************************************************************************)
(* State-machine model of the CNC-shield pusher firmware                   *)
(* (src/shrine_pusher.ino): setup(), loop(), performHoming(), homeAxis(),  *)
(* extendSequence(), retractSequence(), moveAxis(), moveAxisToLimit(),     *)
(* waitForButtonPress(), checkEStop(), emergencyStop(), the motor enable /  *)
(* idle lifecycle, and testMode() with doSteps() and its measure loops.    *)
(*                                                                         *)
(* The firmware is one thread of control.  pc is its position; every       *)
(* digitalRead is a read of the input level at that moment, and the        *)
(* inputs (E-stop, trigger, the two limit switches) change freely between  *)
(* program steps (EnvInput).  One action is one straight-line stretch of   *)
(* code between two input reads of different pins or loop heads.           *)
(*                                                                         *)
(* Travel distances are scaled down (the source has 81 mm / 43 mm at       *)
(* 80 steps/mm); the 1.2 safety factor and all comparisons are the         *)
(* source's.  Time is counted in abstract ticks since lastMotorActivity.   *)
(* The speed constants and ACCEL_STEPS are the source's.                   *)
(***************************************************************************)
EXTENDS Integers, Naturals, Sequences, FiniteSets, TLC

\* ---- scaled configuration ----
\* X_MAX_TRAVEL_MM * STEPS_PER_MM and Y_MAX_TRAVEL_MM * STEPS_PER_MM, in steps
\* (6480 and 3440 in the source)
XTravelSteps == 2
YTravelSteps == 1
\* MOTOR_IDLE_TIMEOUT in ticks (2000 ms in the source)
MOTOR_IDLE_TIMEOUT == 1
\* homeAxis has no step cap of its own: the model follows it this many
\* steps beyond the move-to-limit cap and no further.
HomeOverrun == 1
\* 10L * STEPS_PER_MM and 50L * STEPS_PER_MM, the two jog lengths of testMode
\* (800 and 4000 in the source)
JogShortSteps == 1
JogLongSteps == 2
\* the step cap of testMode's measure loops (100000L in the source)
MeasureCap == 1
\* largest steps argument of a fixed-count move whose ramp is walked
MaxRampSteps == 420

\* ---- speed constants (lines 50-54) ----
HOMING_SPEED_DELAY == 2000
NORMAL_SPEED_DELAY == 1500
TEST_SPEED_DELAY == 1500
START_SPEED_DELAY == 3000
ACCEL_STEPS == 200
\* unsigned int is 16 bits wide on the target
UIntMod == 65536

Axes == {"X", "Y"}
Level == {"HIGH", "LOW"}
InputPins == {"E_STOP_PIN", "COOL_EN_PIN", "X_LIMIT_PIN", "Y_LIMIT_PIN"}

DIR_X_IN == "HIGH"
DIR_X_OUT == "LOW"
DIR_Y_DOWN == "HIGH"
DIR_Y_UP == "LOW"

VARIABLES
  pc,            \* position of the single thread of control
  currentState,  \* SystemState
  isHomed,
  motorsEnabled,
  enablePin,     \* level driven on the shared enable line (pin 8)
  dirPin,        \* level driven on each axis's direction pin
  idleTime,      \* millis() - lastMotorActivity, in ticks, saturating
  axis,          \* the axis argument of the running primitive
  stepCount,     \* stepCount of homeAxis / moveAxisToLimit, i of moveAxis
  pins,          \* current level of every input pin
  autoHoming,    \* the AUTO_HOMING build option
  testMode,      \* the TEST_MODE build option
  steps,         \* the steps / numSteps argument of the running fixed-count move
  currentDelay,  \* currentDelay of the latest loop body
  sincePulse,    \* ticks since the latest step pulse, saturating
  pressSeen,     \* the trigger was pressed since the program last read it released
  limitsHeld,    \* both limit switches have read asserted ever since power-up
  pulses,        \* step pulses emitted on each axis by its latest primitive call
  ret,           \* outcome of each axis's primitive in the running sequence
  entryRead,     \* first limit-pin reading of the running limit-seeking call
  lastRead       \* latest limit-pin reading of the running limit-seeking call

vars == <<pc, currentState, isHomed, motorsEnabled, enablePin, dirPin, idleTime,
          axis, stepCount, pins, autoHoming, pulses, ret, entryRead, lastRead,
          testMode, steps, currentDelay, sincePulse, pressSeen, limitsHeld>>

progVars == <<pc, currentState, isHomed, motorsEnabled, enablePin, dirPin,
              axis, stepCount, autoHoming, pulses, ret, entryRead, lastRead,
              testMode, steps, currentDelay>>

\* what no statement of the program writes
static == <<autoHoming, testMode, limitsHeld>>

\* what only a few statements of the program write
quiet == <<steps, currentDelay, sincePulse, pressSeen>>

ghost == <<pulses, ret, entryRead, lastRead>>

NoRet == [a \in Axes |-> "none"]
NoPulses == [a \in Axes |-> 0]

digitalRead(p) == pins[p]

LimitPin(a) == IF a = "X" THEN "X_LIMIT_PIN" ELSE "Y_LIMIT_PIN"

\* direction toward the limit switch of an axis
DirToLimit(a) == IF a = "X" THEN DIR_X_IN ELSE DIR_Y_DOWN
\* direction away from the limit switch of an axis
DirFromLimit(a) == IF a = "X" THEN DIR_X_OUT ELSE DIR_Y_UP

\* steps argument of the two moveAxis calls of extendSequence
TravelSteps(a) == IF a = "Y" THEN YTravelSteps ELSE XTravelSteps

\* long maxSteps = (...) * STEPS_PER_MM * 1.2, truncated to long
maxSteps(a) == (TravelSteps(a) * 12) \div 10

Init ==
  /\ pc = "setup"
  /\ currentState = "INIT"
  /\ isHomed = FALSE
  /\ motorsEnabled = FALSE
  /\ enablePin \in Level
  /\ dirPin = [a \in Axes |-> "LOW"]
  /\ idleTime = 0
  /\ axis = "X"
  /\ stepCount = 0
  /\ pins \in [InputPins -> Level]
  /\ testMode \in BOOLEAN
  /\ autoHoming \in IF testMode THEN {TRUE} ELSE BOOLEAN
  /\ steps = 0
  /\ currentDelay = 0
  /\ sincePulse = 0
  /\ pressSeen = (pins["COOL_EN_PIN"] = "LOW")
  /\ limitsHeld = (pins["X_LIMIT_PIN"] = "LOW" /\ pins["Y_LIMIT_PIN"] = "LOW")
  /\ pulses = NoPulses
  /\ ret = NoRet
  /\ entryRead = "none"
  /\ lastRead = "none"


\* ---- motor power (lines 84-105) ----
enableMotors ==
  /\ enablePin' = "LOW"
  /\ motorsEnabled' = TRUE
  /\ idleTime' = 0

disableMotors ==
  /\ enablePin' = "HIGH"
  /\ motorsEnabled' = FALSE

\* the condition under which checkMotorIdle calls disableMotors
MotorIdle == motorsEnabled /\ idleTime > MOTOR_IDLE_TIMEOUT

\* ---- emergency stop (lines 426-441) ----
\* checkEStop's reading of the E-stop input
checkEStop == digitalRead("E_STOP_PIN") = "LOW"

\* variant: the homed flag is not cleared
emergencyStopKeepsHomed ==
  /\ enablePin' = "HIGH"
  /\ currentState' = "STOPPED"
  /\ UNCHANGED isHomed
  /\ pc' = "halted"

\* emergencyStop never returns: it ends in while (true) delay(1000)
emergencyStop ==
  /\ enablePin' = "HIGH"
  /\ currentState' = "STOPPED"
  /\ isHomed' = FALSE
  /\ pc' = "halted"

\* one step pulse on the step pin of axis a
StepPulse(a) ==
  /\ pulses' = [pulses EXCEPT ![a] = @ + 1]
  /\ sincePulse' = 0

\* ---- acceleration ramps ----
\* variant: the deceleration branch counts from the start, not from the end
RampDelayFromStart(i, n, target) ==
  IF i < ACCEL_STEPS \/ i > n - ACCEL_STEPS
    THEN (START_SPEED_DELAY - ((START_SPEED_DELAY - target) * i) \div ACCEL_STEPS) % UIntMod
    ELSE target

\* currentDelay of moveAxis (lines 344-351) and doSteps (lines 463-473) at
\* step i of n, assigned to an unsigned int; the operands are promoted to
\* long before the multiplication, so only the assignment narrows
RampDelay(i, n, target) ==
  IF i < ACCEL_STEPS
    THEN (START_SPEED_DELAY - ((START_SPEED_DELAY - target) * i) \div ACCEL_STEPS) % UIntMod
    ELSE IF i > n - ACCEL_STEPS
      THEN (START_SPEED_DELAY
              - ((START_SPEED_DELAY - target) * (n - i)) \div ACCEL_STEPS) % UIntMod
      ELSE target

\* variant: the ramp starts again every ACCEL_STEPS steps
SeekDelayRestarts(n, target) ==
  (START_SPEED_DELAY
     - ((START_SPEED_DELAY - target) * (n % ACCEL_STEPS)) \div ACCEL_STEPS) % UIntMod

\* currentDelay of moveAxisToLimit (lines 379-383) and homeAxis (lines 276-280)
\* after n steps
SeekDelay(n, target) ==
  IF n < ACCEL_STEPS
    THEN (START_SPEED_DELAY - ((START_SPEED_DELAY - target) * n) \div ACCEL_STEPS) % UIntMod
    ELSE target

\* where performHoming and retractSequence return to
Caller == IF testMode THEN "testMode" ELSE "loop"

\* ---- setup (lines 107-153) ----
\* variant: AUTO_HOMING is ignored, setup always ends in READY, not homed
SetupSkipsHoming ==
  /\ pc = "setup"
  /\ enablePin' = "HIGH"
  /\ motorsEnabled' = FALSE
  /\ IF testMode
       THEN /\ currentState' = "TEST_MODE"
            /\ pc' = "testMode"
            /\ UNCHANGED isHomed
       ELSE /\ currentState' = "READY"
            /\ isHomed' = FALSE
            /\ pc' = "loop"
  /\ UNCHANGED quiet
  /\ UNCHANGED <<dirPin, idleTime, axis, stepCount, pins, static, ghost>>

Setup ==
  /\ pc = "setup"
  /\ enablePin' = "HIGH"
  /\ motorsEnabled' = FALSE
  /\ IF testMode
       THEN /\ currentState' = "TEST_MODE"
            /\ pc' = "testMode"
            /\ UNCHANGED isHomed
       ELSE IF autoHoming
         THEN /\ currentState' = "HOMING"
              /\ pc' = "performHoming"
              /\ UNCHANGED isHomed
         ELSE /\ currentState' = "READY"
              /\ isHomed' = FALSE
              /\ pc' = "loop"
  /\ UNCHANGED quiet
  /\ UNCHANGED <<dirPin, idleTime, axis, stepCount, pins, static, ghost>>

\* ---- performHoming (lines 233-256) ----
\* variant: elevation homed before horizontal
HomingOrderSwapped == <<"Y", "X">>

\* the axes of the first and of the second homeAxis call
HomingOrder == <<"X", "Y">>

\* variant: isHomed is set when homing starts
PerformHomingSetsHomed ==
  /\ pc = "performHoming"
  /\ enableMotors
  /\ isHomed' = TRUE
  /\ axis' = HomingOrder[1]
  /\ pc' = "homeAxis"
  /\ pulses' = NoPulses
  /\ ret' = NoRet
  /\ UNCHANGED <<currentState, dirPin, stepCount, pins, static, entryRead, lastRead>>
  /\ UNCHANGED quiet

PerformHoming ==
  /\ pc = "performHoming"
  /\ enableMotors
  /\ axis' = HomingOrder[1]
  /\ pc' = "homeAxis"
  /\ pulses' = NoPulses
  /\ ret' = NoRet
  /\ UNCHANGED <<currentState, isHomed, dirPin, stepCount, pins, static,
                 entryRead, lastRead>>
  /\ UNCHANGED quiet

\* the two tests of homeAxis's result and the tail of performHoming
PerformHomingReturn ==
  /\ pc = "performHoming_ret"
  /\ IF ret[axis] # "ok"
       THEN /\ emergencyStop
            /\ UNCHANGED axis
       ELSE IF axis = HomingOrder[1]
         THEN /\ axis' = HomingOrder[2]
              /\ pc' = "homeAxis"
              /\ UNCHANGED <<currentState, isHomed, enablePin>>
         ELSE /\ isHomed' = TRUE
              /\ currentState' = "READY"
              /\ pc' = Caller
              /\ UNCHANGED <<axis, enablePin>>
  /\ UNCHANGED <<motorsEnabled, dirPin, idleTime, stepCount, pins, static, ghost>>
  /\ UNCHANGED quiet

\* ---- homeAxis (lines 258-291) ----
\* the already-at-limit test, then direction set-up
HomeAxisEntry ==
  /\ pc = "homeAxis"
  /\ LET r == digitalRead(LimitPin(axis)) IN
       /\ entryRead' = r
       /\ lastRead' = r
       /\ IF r = "LOW"
            THEN /\ ret' = [ret EXCEPT ![axis] = "ok"]
                 /\ pc' = "performHoming_ret"
                 /\ UNCHANGED dirPin
            ELSE /\ dirPin' = [dirPin EXCEPT ![axis] = DirToLimit(axis)]
                 /\ pc' = "homeAxis_loop"
                 /\ UNCHANGED ret
  /\ stepCount' = 0
  /\ pulses' = [pulses EXCEPT ![axis] = 0]
  /\ UNCHANGED <<currentState, isHomed, motorsEnabled, enablePin, idleTime, axis,
                 pins, static>>
  /\ UNCHANGED quiet

\* while (digitalRead(limitPin) == HIGH)
HomeAxisLoop ==
  /\ pc = "homeAxis_loop"
  /\ LET r == digitalRead(LimitPin(axis)) IN
       /\ lastRead' = r
       /\ IF r = "HIGH"
            THEN /\ pc' = "homeAxis_step"
                 /\ UNCHANGED ret
            ELSE /\ ret' = [ret EXCEPT ![axis] = "ok"]
                 /\ pc' = "performHoming_ret"
  /\ UNCHANGED <<currentState, isHomed, motorsEnabled, enablePin, dirPin, idleTime,
                 axis, stepCount, pins, static, pulses, entryRead>>
  /\ UNCHANGED quiet

\* the loop has no cap; pulses past HomeBound are emitted but no longer counted
HomeBound(a) == maxSteps(a) + HomeOverrun

\* the loop body: E-stop poll, then one step pulse
HomeAxisStep ==
  /\ pc = "homeAxis_step"
  /\ IF checkEStop
       THEN /\ emergencyStop
            /\ UNCHANGED <<stepCount, pulses, currentDelay, sincePulse>>
       ELSE /\ currentDelay' = SeekDelay(stepCount, HOMING_SPEED_DELAY)
            /\ IF stepCount < HomeBound(axis)
                 THEN /\ StepPulse(axis)
                      /\ stepCount' = stepCount + 1
                 ELSE /\ sincePulse' = 0
                      /\ UNCHANGED <<stepCount, pulses>>
            /\ pc' = "homeAxis_loop"
            /\ UNCHANGED <<currentState, isHomed, enablePin>>
  /\ UNCHANGED <<motorsEnabled, dirPin, idleTime, axis, pins, static,
                 ret, entryRead, lastRead, steps, pressSeen>>

\* ---- loop (lines 155-213) ----
\* what a pass of loop() or of testMode's command loop leaves of the previous
\* sequence: nothing.  The locals of the finished calls are gone and their
\* observations are dropped; a is the axis and n the step count of the move
\* that a test-mode command starts, if any
Fresh(a, n) ==
  /\ axis' = a
  /\ steps' = n
  /\ stepCount' = 0
  /\ currentDelay' = 0
  /\ pulses' = NoPulses
  /\ ret' = NoRet
  /\ entryRead' = "none"
  /\ lastRead' = "none"

\* one pass of loop() up to the first trigger reading
Loop ==
  /\ pc = "loop"
  /\ IF checkEStop
       THEN /\ emergencyStop
            /\ UNCHANGED <<motorsEnabled, pressSeen>>
       ELSE /\ IF MotorIdle
                 THEN disableMotors
                 ELSE UNCHANGED <<enablePin, motorsEnabled>>
            /\ CASE currentState = "READY" ->
                      /\ pc' = IF digitalRead("COOL_EN_PIN") = "LOW"
                                 THEN "ready_debounce" ELSE "loop"
                      /\ pressSeen' = (digitalRead("COOL_EN_PIN") = "LOW")
                      /\ UNCHANGED currentState
                 [] currentState = "EXTENDING" ->
                      /\ currentState' = "READY"
                      /\ pc' = "loop"
                      /\ UNCHANGED pressSeen
                 [] OTHER ->
                      UNCHANGED <<pc, currentState, pressSeen>>
            /\ UNCHANGED isHomed
  /\ Fresh(HomingOrder[1], 0)
  /\ UNCHANGED <<dirPin, idleTime, pins, static, sincePulse>>

\* delay(50); if (digitalRead(COOL_EN_PIN) == LOW)
ReadyDebounce ==
  /\ pc = "ready_debounce"
  /\ pc' = IF digitalRead("COOL_EN_PIN") = "LOW" THEN "ready_release" ELSE "loop"
  /\ pressSeen' = (digitalRead("COOL_EN_PIN") = "LOW")
  /\ UNCHANGED <<currentState, isHomed, motorsEnabled, enablePin, dirPin, idleTime,
                 axis, stepCount, pins, static, ghost>>
  /\ UNCHANGED <<steps, currentDelay, sincePulse>>

\* variant: the dispatch without the isHomed test, a release always extends
ReadyReleaseAlwaysExtends ==
  /\ pc = "ready_release"
  /\ IF digitalRead("COOL_EN_PIN") = "LOW"
       THEN UNCHANGED <<pc, currentState, pressSeen>>
       ELSE /\ pressSeen' = FALSE
            /\ currentState' = "EXTENDING"
            /\ pc' = "extendSequence"
  /\ UNCHANGED <<steps, currentDelay, sincePulse>>
  /\ UNCHANGED <<isHomed, motorsEnabled, enablePin, dirPin, idleTime,
                 axis, stepCount, pins, static, ghost>>

\* variant: the dispatch with the isHomed test inverted
ReadyReleaseInverted ==
  /\ pc = "ready_release"
  /\ IF digitalRead("COOL_EN_PIN") = "LOW"
       THEN UNCHANGED <<pc, currentState, pressSeen>>
       ELSE /\ pressSeen' = FALSE
            /\ IF isHomed
                 THEN /\ currentState' = "HOMING"
                      /\ pc' = "performHoming"
                 ELSE /\ currentState' = "EXTENDING"
                      /\ pc' = "extendSequence"
  /\ UNCHANGED <<steps, currentDelay, sincePulse>>
  /\ UNCHANGED <<isHomed, motorsEnabled, enablePin, dirPin, idleTime,
                 axis, stepCount, pins, static, ghost>>

\* while (digitalRead(COOL_EN_PIN) == LOW) delay(10); then the dispatch on isHomed
ReadyRelease ==
  /\ pc = "ready_release"
  /\ IF digitalRead("COOL_EN_PIN") = "LOW"
       THEN UNCHANGED <<pc, currentState, pressSeen>>
       ELSE /\ pressSeen' = FALSE
            /\ IF ~isHomed
                 THEN /\ currentState' = "HOMING"
                      /\ pc' = "performHoming"
                 ELSE /\ currentState' = "EXTENDING"
                      /\ pc' = "extendSequence"
  /\ UNCHANGED <<steps, currentDelay, sincePulse>>
  /\ UNCHANGED <<isHomed, motorsEnabled, enablePin, dirPin, idleTime,
                 axis, stepCount, pins, static, ghost>>

\* ---- extendSequence (lines 293-308) ----
\* variant: horizontal extended before elevation is raised
ExtendOrderSwapped == <<"X", "Y">>

\* the axes of the first and of the second moveAxis call
ExtendOrder == <<"Y", "X">>

ExtendSequence ==
  /\ pc = "extendSequence"
  /\ axis' = ExtendOrder[1]
  /\ pc' = "moveAxis"
  /\ pulses' = NoPulses
  /\ ret' = NoRet
  /\ UNCHANGED <<currentState, isHomed, motorsEnabled, enablePin, dirPin, idleTime,
                 stepCount, pins, static, entryRead, lastRead>>
  /\ UNCHANGED quiet

\* ---- moveAxis (lines 331-361) ----
MoveAxisEntry ==
  /\ pc = "moveAxis"
  /\ enableMotors
  /\ dirPin' = [dirPin EXCEPT ![axis] = DirFromLimit(axis)]
  /\ stepCount' = 0
  /\ pulses' = [pulses EXCEPT ![axis] = 0]
  /\ entryRead' = "none"
  /\ lastRead' = "none"
  /\ pc' = "moveAxis_loop"
  /\ steps' = TravelSteps(axis)
  /\ UNCHANGED <<currentState, isHomed, axis, pins, static, ret>>
  /\ UNCHANGED <<currentDelay, sincePulse, pressSeen>>

\* variant: the loop body without the E-stop poll
MoveAxisStepNoPoll ==
  /\ pc = "moveAxis_loop"
  /\ stepCount < steps
  /\ currentDelay' = RampDelay(stepCount, steps, NORMAL_SPEED_DELAY)
  /\ StepPulse(axis)
  /\ stepCount' = stepCount + 1
  /\ UNCHANGED <<pc, currentState, isHomed, enablePin>>
  /\ UNCHANGED <<motorsEnabled, dirPin, idleTime, axis, pins, static,
                 ret, entryRead, lastRead, steps, pressSeen>>

\* one iteration of for (i = 0; i < steps; i++): E-stop poll, then one pulse
MoveAxisStep ==
  /\ pc = "moveAxis_loop"
  /\ stepCount < steps
  /\ IF checkEStop
       THEN /\ emergencyStop
            /\ UNCHANGED <<stepCount, pulses, currentDelay, sincePulse>>
       ELSE /\ currentDelay' = RampDelay(stepCount, steps, NORMAL_SPEED_DELAY)
            /\ StepPulse(axis)
            /\ stepCount' = stepCount + 1
            /\ UNCHANGED <<pc, currentState, isHomed, enablePin>>
  /\ UNCHANGED <<motorsEnabled, dirPin, idleTime, axis, pins, static,
                 ret, entryRead, lastRead, steps, pressSeen>>

\* variant: the loop also ends when the limit switch of the axis reads LOW
MoveAxisDoneAtLimit ==
  /\ pc = "moveAxis_loop"
  /\ (~(stepCount < steps) \/ digitalRead(LimitPin(axis)) = "LOW")
  /\ idleTime' = 0
  /\ ret' = [ret EXCEPT ![axis] = "done"]
  /\ IF axis = ExtendOrder[1]
       THEN /\ axis' = ExtendOrder[2]
            /\ pc' = "moveAxis"
       ELSE /\ pc' = "wait_release"
            /\ UNCHANGED axis
  /\ UNCHANGED <<currentState, isHomed, motorsEnabled, enablePin, dirPin,
                 stepCount, pins, static, pulses, entryRead, lastRead>>
  /\ UNCHANGED quiet

\* loop exit, lastMotorActivity = millis(), return into extendSequence
MoveAxisDone ==
  /\ pc = "moveAxis_loop"
  /\ ~(stepCount < steps)
  /\ idleTime' = 0
  /\ ret' = [ret EXCEPT ![axis] = "done"]
  /\ IF axis = ExtendOrder[1]
       THEN /\ axis' = ExtendOrder[2]
            /\ pc' = "moveAxis"
       ELSE /\ pc' = "wait_release"
            /\ UNCHANGED axis
  /\ UNCHANGED <<currentState, isHomed, motorsEnabled, enablePin, dirPin,
                 stepCount, pins, static, pulses, entryRead, lastRead>>
  /\ UNCHANGED quiet

\* ---- waitForButtonPress (lines 404-424) ----
\* while (digitalRead(COOL_EN_PIN) == LOW) delay(10);
\* variant: the wait for release at the head of waitForButtonPress is skipped
WaitReleaseSkipped ==
  /\ pc = "wait_release"
  /\ pc' = "wait_press"
  /\ UNCHANGED <<steps, currentDelay, sincePulse, pressSeen>>
  /\ UNCHANGED <<currentState, isHomed, motorsEnabled, enablePin, dirPin, idleTime,
                 axis, stepCount, pins, static, ghost>>

WaitRelease ==
  /\ pc = "wait_release"
  /\ IF digitalRead("COOL_EN_PIN") = "LOW"
       THEN UNCHANGED <<pc, pressSeen>>
       ELSE /\ pc' = "wait_press"
            /\ pressSeen' = FALSE
  /\ UNCHANGED <<steps, currentDelay, sincePulse>>
  /\ UNCHANGED <<currentState, isHomed, motorsEnabled, enablePin, dirPin, idleTime,
                 axis, stepCount, pins, static, ghost>>

\* head of while (true): E-stop poll, then the trigger reading
WaitPress ==
  /\ pc = "wait_press"
  /\ IF checkEStop
       THEN /\ emergencyStop
            /\ UNCHANGED pressSeen
       ELSE /\ pc' = IF digitalRead("COOL_EN_PIN") = "LOW"
                       THEN "wait_debounce" ELSE "wait_press"
            /\ pressSeen' = (digitalRead("COOL_EN_PIN") = "LOW")
            /\ UNCHANGED <<currentState, isHomed, enablePin>>
  /\ UNCHANGED <<motorsEnabled, dirPin, idleTime, axis, stepCount, pins,
                 static, ghost>>
  /\ UNCHANGED <<steps, currentDelay, sincePulse>>

\* delay(50); if (digitalRead(COOL_EN_PIN) == LOW)
WaitDebounce ==
  /\ pc = "wait_debounce"
  /\ pc' = IF digitalRead("COOL_EN_PIN") = "LOW" THEN "wait_held" ELSE "wait_press"
  /\ pressSeen' = (digitalRead("COOL_EN_PIN") = "LOW")
  /\ UNCHANGED <<currentState, isHomed, motorsEnabled, enablePin, dirPin, idleTime,
                 axis, stepCount, pins, static, ghost>>
  /\ UNCHANGED <<steps, currentDelay, sincePulse>>

\* ---- retractSequence (lines 310-329) ----
\* variant: elevation lowered before horizontal is retracted
RetractOrderSwapped == <<"Y", "X">>

\* the axes of the first and of the second moveAxisToLimit call
RetractOrder == <<"X", "Y">>

\* wait for release, return, and entry into retractSequence
WaitHeld ==
  /\ pc = "wait_held"
  /\ IF digitalRead("COOL_EN_PIN") = "LOW"
       THEN UNCHANGED <<pc, axis, ret, pressSeen>>
       ELSE /\ pc' = "moveAxisToLimit"
            /\ axis' = RetractOrder[1]
            /\ ret' = NoRet
            /\ pressSeen' = FALSE
  /\ UNCHANGED <<steps, currentDelay, sincePulse>>
  /\ UNCHANGED <<currentState, isHomed, motorsEnabled, enablePin, dirPin, idleTime,
                 stepCount, pins, static, pulses, entryRead, lastRead>>

\* variant: a failed call is not escalated, the sequence goes on
RetractReturnIgnoresFailure ==
  /\ pc = "retract_ret"
  /\ IF axis = RetractOrder[1]
       THEN /\ axis' = RetractOrder[2]
            /\ pc' = "moveAxisToLimit"
            /\ UNCHANGED currentState
       ELSE /\ currentState' = "READY"
            /\ pc' = Caller
            /\ UNCHANGED axis
  /\ UNCHANGED <<isHomed, enablePin, motorsEnabled, dirPin, idleTime, stepCount,
                 pins, static, ghost>>
  /\ UNCHANGED quiet

\* what retractSequence does with the result of moveAxisToLimit on axis
RetractReturn ==
  /\ pc = "retract_ret"
  /\ IF ret[axis] # "ok"
       THEN /\ emergencyStop
            /\ UNCHANGED axis
       ELSE IF axis = RetractOrder[1]
         THEN /\ axis' = RetractOrder[2]
              /\ pc' = "moveAxisToLimit"
              /\ UNCHANGED <<currentState, isHomed, enablePin>>
         ELSE /\ currentState' = "READY"
              /\ pc' = Caller
              /\ UNCHANGED <<axis, isHomed, enablePin>>
  /\ UNCHANGED <<motorsEnabled, dirPin, idleTime, stepCount, pins, static, ghost>>
  /\ UNCHANGED quiet

\* ---- moveAxisToLimit (lines 363-402) ----
\* variant: the cap compared with <= instead of <
ToLimitContinueOffByOne(r, n, a) == r = "HIGH" /\ n <= maxSteps(a)

\* variant: a do-while loop, the body runs once before the first test
ToLimitContinueDoWhile(r, n, a) == n = 0 \/ (r = "HIGH" /\ n < maxSteps(a))

\* the loop condition of line 375, r the limit-pin reading
ToLimitContinue(r, n, a) == r = "HIGH" /\ n < maxSteps(a)

\* the failure test of line 394
ToLimitFailed(n, a) == n >= maxSteps(a)

MoveToLimitEntry ==
  /\ pc = "moveAxisToLimit"
  /\ enableMotors
  /\ dirPin' = [dirPin EXCEPT ![axis] = DirToLimit(axis)]
  /\ stepCount' = 0
  /\ pulses' = [pulses EXCEPT ![axis] = 0]
  /\ entryRead' = "none"
  /\ lastRead' = "none"
  /\ pc' = "moveAxisToLimit_loop"
  /\ UNCHANGED <<currentState, isHomed, axis, pins, static, ret>>
  /\ UNCHANGED quiet

\* the loop condition and, when it fails, the code after the loop
MoveToLimitLoop ==
  /\ pc = "moveAxisToLimit_loop"
  /\ LET r == digitalRead(LimitPin(axis)) IN
       /\ lastRead' = r
       /\ entryRead' = IF entryRead = "none" THEN r ELSE entryRead
       /\ IF ToLimitContinue(r, stepCount, axis)
            THEN /\ pc' = "moveAxisToLimit_step"
                 /\ UNCHANGED <<ret, idleTime>>
            ELSE /\ pc' = "retract_ret"
                 /\ IF ToLimitFailed(stepCount, axis)
                      THEN /\ ret' = [ret EXCEPT ![axis] = "fail"]
                           /\ UNCHANGED idleTime
                      ELSE /\ ret' = [ret EXCEPT ![axis] = "ok"]
                           /\ idleTime' = 0
  /\ UNCHANGED <<currentState, isHomed, motorsEnabled, enablePin, dirPin,
                 axis, stepCount, pins, static, pulses>>
  /\ UNCHANGED quiet

\* the loop body: E-stop poll, then one step pulse
MoveToLimitStep ==
  /\ pc = "moveAxisToLimit_step"
  /\ IF checkEStop
       THEN /\ emergencyStop
            /\ UNCHANGED <<stepCount, pulses, currentDelay, sincePulse>>
       ELSE /\ currentDelay' = SeekDelay(stepCount, NORMAL_SPEED_DELAY)
            /\ StepPulse(axis)
            /\ stepCount' = stepCount + 1
            /\ pc' = "moveAxisToLimit_loop"
            /\ UNCHANGED <<currentState, isHomed, enablePin>>
  /\ UNCHANGED <<motorsEnabled, dirPin, idleTime, axis, pins, static,
                 ret, entryRead, lastRead, steps, pressSeen>>

\* ---- doSteps (lines 455-484) ----
DoStepsEntry ==
  /\ pc = "doSteps"
  /\ enableMotors
  /\ stepCount' = 0
  /\ pc' = "doSteps_loop"
  /\ UNCHANGED <<currentState, isHomed, dirPin, axis, pins, static, ghost>>
  /\ UNCHANGED quiet

\* one iteration of for (i = 0; i < numSteps; i++): the loop has no E-stop poll
DoStepsStep ==
  /\ pc = "doSteps_loop"
  /\ stepCount < steps
  /\ currentDelay' = RampDelay(stepCount, steps, TEST_SPEED_DELAY)
  /\ StepPulse(axis)
  /\ stepCount' = stepCount + 1
  /\ UNCHANGED <<pc, currentState, isHomed, motorsEnabled, enablePin, dirPin, idleTime,
                 axis, pins, static, ret, entryRead, lastRead, steps, pressSeen>>

\* loop exit, lastMotorActivity = millis(), return into testMode
DoStepsDone ==
  /\ pc = "doSteps_loop"
  /\ ~(stepCount < steps)
  /\ idleTime' = 0
  /\ pc' = "testMode"
  /\ UNCHANGED <<currentState, isHomed, motorsEnabled, enablePin, dirPin,
                 axis, stepCount, pins, static, ghost>>
  /\ UNCHANGED quiet

\* ---- testMode (lines 486-667) ----
\* one pass of testMode's while (true): E-stop poll, checkMotorIdle, and the
\* serial command, if any.  '1'-'8' jog, 'm' then 'x' or 'y' measures, 'h'
\* homes, 'e' extends, 'r' retracts; every other input changes nothing
TestMode ==
  /\ pc = "testMode"
  /\ IF checkEStop
       THEN /\ emergencyStop
            /\ Fresh(HomingOrder[1], 0)
            /\ UNCHANGED <<motorsEnabled, dirPin>>
       ELSE /\ IF MotorIdle
                 THEN disableMotors
                 ELSE UNCHANGED <<enablePin, motorsEnabled>>
            /\ UNCHANGED <<currentState, isHomed>>
            /\ \/ \E a \in Axes, d \in Level, n \in {JogShortSteps, JogLongSteps} :
                    /\ dirPin' = [dirPin EXCEPT ![a] = d]
                    /\ pc' = "doSteps"
                    /\ Fresh(a, n)
               \/ \E a \in Axes :
                    /\ dirPin' = [dirPin EXCEPT ![a] = DirToLimit(a)]
                    /\ pc' = "measure"
                    /\ Fresh(a, 0)
               \/ /\ pc' = "performHoming"
                  /\ Fresh(HomingOrder[1], 0)
                  /\ UNCHANGED dirPin
               \/ /\ pc' = "extendSequence"
                  /\ Fresh(ExtendOrder[1], 0)
                  /\ UNCHANGED dirPin
               \/ /\ pc' = "moveAxisToLimit"
                  /\ Fresh(RetractOrder[1], 0)
                  /\ UNCHANGED dirPin
               \/ /\ Fresh(HomingOrder[1], 0)
                  /\ UNCHANGED <<pc, dirPin>>
  /\ UNCHANGED <<idleTime, pins, static, sincePulse, pressSeen>>

\* the measure loops (lines 574-582 and 591-599), stepCount their local steps:
\* no enableMotors, no E-stop poll, no lastMotorActivity update
MeasureStep ==
  /\ pc = "measure"
  /\ LET r == digitalRead(LimitPin(axis)) IN
       /\ lastRead' = r
       /\ entryRead' = IF entryRead = "none" THEN r ELSE entryRead
       /\ IF r = "HIGH" /\ stepCount < MeasureCap
            THEN /\ StepPulse(axis)
                 /\ stepCount' = stepCount + 1
                 /\ UNCHANGED pc
            ELSE /\ pc' = "testMode"
                 /\ UNCHANGED <<stepCount, pulses, sincePulse>>
  /\ UNCHANGED <<currentState, isHomed, motorsEnabled, enablePin, dirPin, idleTime,
                 axis, pins, static, ret, steps, currentDelay, pressSeen>>

\* ---- environment ----
\* an input pin changes level
EnvInput ==
  /\ \E p \in InputPins :
       /\ pins' = [pins EXCEPT ![p] = IF @ = "HIGH" THEN "LOW" ELSE "HIGH"]
       /\ pressSeen' = (pressSeen \/ (p = "COOL_EN_PIN" /\ pins[p] = "HIGH"))
       /\ limitsHeld' = (limitsHeld /\ p \notin {"X_LIMIT_PIN", "Y_LIMIT_PIN"})
  /\ UNCHANGED <<idleTime, sincePulse>>
  /\ UNCHANGED progVars

\* millis() advances by one tick
Tick ==
  /\ idleTime <= MOTOR_IDLE_TIMEOUT \/ sincePulse <= MOTOR_IDLE_TIMEOUT
  /\ idleTime' = IF idleTime <= MOTOR_IDLE_TIMEOUT THEN idleTime + 1 ELSE idleTime
  /\ sincePulse' = IF sincePulse <= MOTOR_IDLE_TIMEOUT THEN sincePulse + 1 ELSE sincePulse
  /\ UNCHANGED <<pins, pressSeen, limitsHeld>>
  /\ UNCHANGED progVars

\* ---- the program and the system ----
Program ==
  \/ Setup
  \/ PerformHoming
  \/ PerformHomingReturn
  \/ HomeAxisEntry
  \/ HomeAxisLoop
  \/ HomeAxisStep
  \/ Loop
  \/ ReadyDebounce
  \/ ReadyRelease
  \/ ExtendSequence
  \/ MoveAxisEntry
  \/ MoveAxisStep
  \/ MoveAxisDone
  \/ WaitRelease
  \/ WaitPress
  \/ WaitDebounce
  \/ WaitHeld
  \/ RetractReturn
  \/ MoveToLimitEntry
  \/ MoveToLimitLoop
  \/ MoveToLimitStep
  \/ DoStepsEntry
  \/ DoStepsStep
  \/ DoStepsDone
  \/ TestMode
  \/ MeasureStep

Next == Program \/ EnvInput \/ Tick

Spec == Init /\ [][Next]_vars

\* the processor never stops executing the program
FairSpec == Spec /\ WF_vars(Program)

\* in addition every polling loop samples its input faster than the input
\* changes: a loop exit that is open again and again is eventually taken
PollingFairSpec == Spec /\ SF_vars(Program)

\* and millis() keeps advancing
TimedFairSpec == Spec /\ SF_vars(Program) /\ WF_vars(Tick)

\* ---- the ramps of the moves on their own ----
\* moveAxis or doSteps has just entered its loop with some steps argument, or
\* moveAxisToLimit or homeAxis has just entered its loop body for the first time
RampInit ==
  /\ pc \in {"moveAxis_loop", "doSteps_loop", "moveAxisToLimit_step", "homeAxis_step"}
  /\ steps \in IF pc \in {"moveAxis_loop", "doSteps_loop"} THEN 1..MaxRampSteps ELSE {0}
  /\ stepCount = 0
  /\ currentDelay = 0
  /\ testMode = (pc = "doSteps_loop")
  /\ currentState = IF testMode THEN "TEST_MODE"
                    ELSE IF pc = "homeAxis_step" THEN "HOMING" ELSE "EXTENDING"
  /\ isHomed = (pc \in {"moveAxis_loop", "moveAxisToLimit_step"})
  /\ autoHoming = TRUE
  /\ motorsEnabled = TRUE
  /\ enablePin = "LOW"
  /\ dirPin = IF pc \in {"moveAxis_loop", "doSteps_loop"}
               THEN [a \in Axes |-> DirFromLimit(a)]
               ELSE [a \in Axes |-> DirToLimit(a)]
  /\ idleTime = 0
  /\ axis = IF pc \in {"moveAxis_loop", "doSteps_loop"} THEN ExtendOrder[1]
            ELSE RetractOrder[1]
  /\ pins = [p \in InputPins |-> "HIGH"]
  /\ pulses = NoPulses
  /\ ret = NoRet
  /\ entryRead = "none"
  /\ lastRead = "none"
  /\ sincePulse = 0
  /\ pressSeen = FALSE
  /\ limitsHeld = FALSE

\* the delay computation and the pulse of the loop bodies of moveAxisToLimit
\* (lines 379-390) and homeAxis (lines 276-285) at the step counts of the
\* real travel, the limit switch not yet reached and E-stop released
SeekRampStep ==
  /\ pc \in {"moveAxisToLimit_step", "homeAxis_step"}
  /\ stepCount < MaxRampSteps
  /\ currentDelay' = SeekDelay(stepCount, IF pc = "homeAxis_step"
                                            THEN HOMING_SPEED_DELAY
                                            ELSE NORMAL_SPEED_DELAY)
  /\ StepPulse(axis)
  /\ stepCount' = stepCount + 1
  /\ UNCHANGED <<pc, currentState, isHomed, motorsEnabled, enablePin, dirPin, idleTime,
                 axis, pins, static, ret, entryRead, lastRead, steps, pressSeen>>

\* the loop bodies of moveAxis, doSteps, moveAxisToLimit and homeAxis
RampNext == MoveAxisStep \/ DoStepsStep \/ SeekRampStep

RampSpec == RampInit /\ [][RampNext]_vars

\* ---- vocabulary of the properties ----
\* this step emits a step pulse on axis a
PulseOn(a) == pulses'[a] = pulses[a] + 1
AnyPulse == \E a \in Axes : PulseOn(a)

HomingPcs == {"homeAxis", "homeAxis_loop", "homeAxis_step", "performHoming_ret"}
ExtendPcs == {"moveAxis", "moveAxis_loop"}
WaitPcs == {"wait_release", "wait_press", "wait_debounce", "wait_held"}
RetractPcs == {"moveAxisToLimit", "moveAxisToLimit_loop", "moveAxisToLimit_step",
               "retract_ret"}

\* the program is inside homeAxis, moveAxis or moveAxisToLimit
PrimitivePcs == HomingPcs \cup ExtendPcs \cup RetractPcs
TestPcs == {"testMode", "doSteps", "doSteps_loop", "measure"}

\* the program is at the E-stop poll of a motion primitive's loop body
AtStepPoll ==
  \/ pc \in {"homeAxis_step", "moveAxisToLimit_step"}
  \/ pc = "moveAxis_loop" /\ stepCount < TravelSteps(axis)

FullTravel == [a \in Axes |-> TravelSteps(a)]

\* ---- C1 ----
\* C1: every step pulse of homeAxis, moveAxis and moveAxisToLimit is emitted
\* by a loop body that polled the E-stop
\* input and read it released; a poll that reads it asserted emits no pulse
\* and leaves the program halted in STOPPED with isHomed false, and no pulse
\* is emitted from the halt.
C1_EStopPolledBeforeEveryStep ==
  [][ /\ (AnyPulse /\ pc \in PrimitivePcs) => (AtStepPoll /\ ~checkEStop)
      /\ (AtStepPoll /\ checkEStop /\ progVars' # progVars) =>
           (pc' = "halted" /\ currentState' = "STOPPED" /\ ~isHomed' /\ ~AnyPulse)
      /\ pc = "halted" => (pc' = "halted" /\ ~AnyPulse) ]_vars

\* E-stop halted the horizontal move of an extend part-way
C1_Witness ==
  /\ pc = "halted"
  /\ currentState = "STOPPED"
  /\ ret["Y"] = "done"
  /\ axis = "X"
  /\ pulses["X"] > 0
  /\ pulses["X"] < TravelSteps("X")

\* ---- C2 ----
\* C2: whenever the E-stop input is asserted and stays asserted, the system
\* eventually reaches STOPPED.
C2_EStopEventuallyStops ==
  []( ([]checkEStop) => <>(currentState = "STOPPED") )

\* ---- C3 ----
\* C3: once currentState is STOPPED it stays STOPPED, isHomed stays false, the
\* enable line stays at the disabled level and no step pulse is emitted.
C3_StoppedIsTerminal ==
  [][ currentState = "STOPPED" =>
        /\ currentState' = "STOPPED"
        /\ ~isHomed /\ ~isHomed'
        /\ enablePin = "HIGH" /\ enablePin' = "HIGH"
        /\ ~AnyPulse ]_vars

\* stopped in the middle of an extend that began homed, inputs moving afterwards
C3_Witness ==
  /\ currentState = "STOPPED"
  /\ ret["Y"] = "done"
  /\ ~checkEStop
  /\ digitalRead("COOL_EN_PIN") = "LOW"
  /\ idleTime > MOTOR_IDLE_TIMEOUT

C5_ExtendOrder ==
  [][ /\ (pc \in ExtendPcs /\ PulseOn("Y")) =>
           (ret = NoRet /\ pulses["X"] = 0 /\ dirPin["Y"] = DIR_Y_UP)
      /\ (pc \in ExtendPcs /\ PulseOn("X")) =>
           (ret["Y"] = "done" /\ pulses["Y"] = TravelSteps("Y")
              /\ dirPin["X"] = DIR_X_OUT)
      /\ pc' \in WaitPcs =>
           (ret'["Y"] = "done" /\ ret'["X"] = "done" /\ pulses' = FullTravel) ]_vars

\* the X move of an extend is part-way, the Y move done
C5_Witness ==
  /\ pc = "moveAxis_loop"
  /\ axis = "X"
  /\ ret["Y"] = "done"
  /\ pulses["Y"] = TravelSteps("Y")
  /\ pulses["X"] > 0

\* ---- C6 ----
\* C6: in performHoming X is stepped only before either homeAxis call has
\* returned, Y only after homeAxis on X returned success; homeAxis returns
\* success only on reading the limit asserted, and isHomed becomes true only
\* when both calls returned success.
C6_HomingOrder ==
  [][ /\ (pc \in HomingPcs /\ PulseOn("X")) => ret = NoRet
      /\ (pc \in HomingPcs /\ PulseOn("Y")) => (ret["X"] = "ok" /\ ret["Y"] = "none")
      /\ (pc \in HomingPcs /\ ret'[axis] = "ok" /\ ret[axis] # "ok") =>
           lastRead' = "LOW"
      /\ (isHomed' /\ ~isHomed) =>
           (pc = "performHoming_ret" /\ ret["X"] = "ok" /\ ret["Y"] = "ok") ]_vars

\* homing in which both axes had to be stepped has just succeeded on Y
C6_Witness ==
  /\ pc = "performHoming_ret"
  /\ axis = "Y"
  /\ ret["X"] = "ok" /\ ret["Y"] = "ok"
  /\ pulses["X"] > 0 /\ pulses["Y"] > 0

\* ---- C7 ----
\* C7: homing never steps an axis more than the safety cap of 1.2 x that
\* axis's max-travel steps.
C7_HomingWithinCap ==
  pc \in HomingPcs => pulses[axis] <= maxSteps(axis)

\* ---- C8 ----
\* C8: moveAxisToLimit never emits more than maxSteps pulses, its stepping
\* loop always ends (by returning, or in the E-stop halt), and when the limit
\* still reads released at the end of the loop it returns failure after
\* exactly maxSteps pulses.
C8_MoveToLimitCap ==
  /\ [](pc \in (RetractPcs \ {"moveAxisToLimit"}) =>
          (pulses[axis] = stepCount /\ pulses[axis] <= maxSteps(axis)))
  /\ []((pc = "retract_ret" /\ lastRead = "HIGH") =>
          (ret[axis] = "fail" /\ pulses[axis] = maxSteps(axis)))
  /\ (pc = "moveAxisToLimit") ~> (pc \in {"retract_ret", "halted"})

\* a move-to-limit ran into the cap with the limit still released
C8_Witness ==
  /\ pc = "retract_ret"
  /\ lastRead = "HIGH"
  /\ ret[axis] = "fail"
  /\ pulses[axis] = maxSteps(axis)

\* ---- C9 ----
\* C9: moveAxisToLimit returns success exactly when its loop ended on a
\* reading of the limit switch as asserted, for every step count up to and
\* including the cap.
C9_SuccessIffLimitRead ==
  pc = "retract_ret" => (ret[axis] = "ok" <=> lastRead = "LOW")

\* ---- C10 ----
\* C10: when the first reading of the limit switch in moveAxisToLimit or
\* homeAxis is asserted, the call emits no step pulse and returns success.
C10_AlreadyAtLimit ==
  (pc \in {"retract_ret", "performHoming_ret"} /\ entryRead = "LOW") =>
     (pulses[axis] = 0 /\ ret[axis] = "ok")

\* moveAxisToLimit on Y returned at once, after X had to be stepped
C10_Witness ==
  /\ pc = "retract_ret"
  /\ axis = "Y"
  /\ entryRead = "LOW"
  /\ pulses["Y"] = 0
  /\ pulses["X"] > 0
  /\ ret["Y"] = "ok"


\* ---- C11 ----
\* C11: when a moveAxisToLimit call of retractSequence has returned failure,
\* the next program step is the emergency stop: STOPPED, isHomed false, no
\* pulse; the program then stays halted and emits no pulse, and when the X
\* call failed the Y call never happened.
C11_RetractFailureFatal ==
  /\ [][ /\ (pc = "retract_ret" /\ ret[axis] = "fail" /\ progVars' # progVars) =>
             (pc' = "halted" /\ currentState' = "STOPPED" /\ ~isHomed' /\ ~AnyPulse)
         /\ (pc = "halted" /\ ret[RetractOrder[1]] = "fail") =>
             (pc' = "halted" /\ ~AnyPulse /\ UNCHANGED <<ret, dirPin>>) ]_vars
  /\ [](ret[RetractOrder[1]] = "fail" =>
          (ret[RetractOrder[2]] = "none" /\ pc \in {"retract_ret", "halted"}))

\* the X move-to-limit ran into its cap and the retract was stopped
C11_Witness ==
  /\ pc = "halted"
  /\ currentState = "STOPPED"
  /\ ~isHomed
  /\ ret["X"] = "fail"
  /\ ret["Y"] = "none"
  /\ pulses["X"] = maxSteps("X")
  /\ lastRead = "HIGH"

\* ---- C12 ----
\* C12: a step pulse on either axis is emitted only while the shared enable
\* line is active (LOW), on every motion path, the test-mode commands included.
C12_EnabledAtEveryStep ==
  [][AnyPulse => enablePin = "LOW"]_vars

\* ---- C13 ----
\* C13: the motors go from enabled to disabled only in the idle check of the
\* main loop or of the test-mode command loop, outside every motion
\* primitive, and only when more than MOTOR_IDLE_TIMEOUT has elapsed since
\* the most recent step pulse.
C13_IdleDisableOnlyAfterTimeout ==
  [][ (motorsEnabled /\ ~motorsEnabled') =>
        /\ pc \in {"loop", "testMode"}
        /\ sincePulse > MOTOR_IDLE_TIMEOUT ]_vars

\* ---- C14 ----
\* C14: whenever the motors are enabled, the state is not STOPPED and no step
\* pulse has been emitted for longer than MOTOR_IDLE_TIMEOUT, the motors are
\* eventually disabled (or the system stops), also while the program waits
\* for the trigger between extend and retract.
C14_IdleEventuallyDisables ==
  (motorsEnabled /\ currentState # "STOPPED" /\ sincePulse > MOTOR_IDLE_TIMEOUT)
    ~> (~motorsEnabled \/ currentState = "STOPPED")

\* ---- C15 ----
\* the program is inside the extend / wait / retract cycle
CyclePcs == {"extendSequence"} \cup ExtendPcs \cup WaitPcs \cup RetractPcs

\* C15: the READY branch of loop() dispatches only once the debounced trigger
\* reads released again, to homing with state HOMING when isHomed is false
\* and to the extend sequence with state EXTENDING when it is true; the cycle
\* started from READY runs with isHomed true, enters the trigger wait only
\* from the end of the extend moves and the retract only from the trigger
\* wait, and a cycle that reaches its end sets READY and leaves isHomed as
\* it was.
C15_ReadyDispatchAndCycle ==
  /\ [][ /\ (pc = "ready_release" /\ pc' # pc) =>
             /\ currentState = "READY"
             /\ digitalRead("COOL_EN_PIN") = "HIGH"
             /\ IF isHomed
                  THEN pc' = "extendSequence" /\ currentState' = "EXTENDING"
                  ELSE pc' = "performHoming" /\ currentState' = "HOMING"
             /\ UNCHANGED isHomed
         /\ (pc' = "wait_release" /\ pc # "wait_release") =>
             (pc = "moveAxis_loop" /\ axis = ExtendOrder[2])
         /\ (~testMode /\ pc' = "moveAxisToLimit" /\ pc \notin RetractPcs) =>
             pc = "wait_held"
         /\ (pc \in RetractPcs /\ pc' = Caller) =>
             (currentState' = "READY" /\ UNCHANGED isHomed) ]_vars
  /\ []((~testMode /\ pc \in CyclePcs) => (isHomed /\ currentState = "EXTENDING"))

\* a whole cycle started from READY has returned to READY, still homed
C15_Witness ==
  /\ ~testMode
  /\ pc = "loop"
  /\ currentState = "READY"
  /\ isHomed
  /\ steps = TravelSteps(ExtendOrder[2])
  /\ ret = [a \in Axes |-> "ok"]
  /\ ~pressSeen

\* ---- C16 ----
\* C16: from the start of retractSequence's X move-to-limit until the
\* sequence returns, the state of a cycle started from READY is RETRACTING.
C16_RetractingDuringRetract ==
  (~testMode /\ pc \in RetractPcs) => currentState = "RETRACTING"

\* ---- C17 ----
\* C17: setup leaves INIT for HOMING and performHoming when auto-homing is
\* enabled and for READY with isHomed false when it is not; HOMING is left
\* only for READY with isHomed true (success) or for STOPPED; and when both
\* limit switches read asserted from power-up on, the start-up homing emits
\* no step pulse and READY with isHomed true is reached.
C17_Startup ==
  /\ [][ /\ (~testMode /\ pc = "setup" /\ pc' # pc) =>
             /\ currentState = "INIT"
             /\ IF autoHoming
                  THEN currentState' = "HOMING" /\ pc' = "performHoming"
                  ELSE currentState' = "READY" /\ ~isHomed' /\ pc' = "loop"
         /\ (currentState = "HOMING" /\ currentState' # "HOMING") =>
             \/ currentState' = "READY" /\ isHomed' /\ pc = "performHoming_ret"
             \/ currentState' = "STOPPED" /\ ~isHomed'
         /\ (limitsHeld /\ currentState = "HOMING" /\ currentState' # "HOMING") =>
             (currentState' = "READY" /\ isHomed' /\ pulses' = NoPulses) ]_vars
  /\ []((limitsHeld /\ currentState \in {"INIT", "HOMING"}) => pulses = NoPulses)
  /\ (pc = "setup" /\ ~testMode /\ autoHoming /\ limitsHeld)
       ~> (~limitsHeld \/ (currentState = "READY" /\ isHomed /\ pulses = NoPulses))

\* start-up homing with both limit switches asserted throughout has ended
C17_Witness ==
  /\ ~testMode
  /\ autoHoming
  /\ limitsHeld
  /\ pc = "loop"
  /\ currentState = "READY"
  /\ isHomed
  /\ pulses = NoPulses
  /\ ret = [a \in Axes |-> "ok"]
  /\ entryRead = "LOW"

\* ---- C18 ----
\* C18: isHomed is false until setup has run and in every STOPPED state, and
\* it goes from false to true only in the step that ends performHoming, after
\* homeAxis returned success on both axes, together with READY.
C18_HomedFlag ==
  /\ [](pc = "setup" => ~isHomed)
  /\ [](currentState \in {"INIT", "STOPPED"} => ~isHomed)
  /\ [](pc = "halted" => currentState = "STOPPED")
  /\ [][ (~isHomed /\ isHomed') =>
           /\ pc = "performHoming_ret"
           /\ axis = HomingOrder[2]
           /\ ret = [a \in Axes |-> "ok"]
           /\ pc' = Caller
           /\ currentState' = "READY" ]_vars

\* a homing started by the trigger from READY, not homed, has succeeded
\* after stepping both axes to their limits
C18_Witness ==
  /\ ~testMode
  /\ ~autoHoming
  /\ isHomed
  /\ pc = "loop"
  /\ currentState = "READY"
  /\ ret = [a \in Axes |-> "ok"]
  /\ pulses["X"] > 0 /\ pulses["Y"] > 0
  /\ steps = 0

\* ---- C19 ----
\* the trigger input reads pressed
Pressed == digitalRead("COOL_EN_PIN") = "LOW"

\* C19: homing from READY and the extend sequence start only from the release
\* wait of loop(), the retract only from the release wait that ends
\* waitForButtonPress; each release wait is entered only after two pressed
\* readings (debounce) and left only on a released reading of a press that
\* happened after the program last read the trigger released; that press is
\* then used up, so the next start needs a new press.  waitForButtonPress
\* begins to look for a press only once it has read the trigger released.
C19_OnePressOneAdvance ==
  /\ [][ /\ (~testMode /\ pc' \in {"performHoming", "extendSequence"} /\ pc' # pc
               /\ pc # "setup") => pc = "ready_release"
         /\ (~testMode /\ pc' = "moveAxisToLimit" /\ pc \notin RetractPcs) =>
               pc = "wait_held"
         /\ (pc \in {"ready_release", "wait_held"} /\ pc' # pc) =>
               (pressSeen /\ ~Pressed /\ ~pressSeen')
         /\ (pc' = "ready_release" /\ pc' # pc) => (pc = "ready_debounce" /\ Pressed)
         /\ (pc' = "ready_debounce" /\ pc' # pc) => (pc = "loop" /\ Pressed)
         /\ (pc' = "wait_held" /\ pc' # pc) => (pc = "wait_debounce" /\ Pressed)
         /\ (pc' = "wait_debounce" /\ pc' # pc) => (pc = "wait_press" /\ Pressed)
         /\ (pc' = "wait_press" /\ pc = "wait_release") => (~Pressed /\ ~pressSeen')
         /\ (~pressSeen /\ pressSeen') => Pressed' ]_vars
  /\ [](~pressSeen => ~Pressed)

\* the second press and release of a cycle has just started the retract
C19_Witness ==
  /\ ~testMode
  /\ pc = "moveAxisToLimit"
  /\ axis = RetractOrder[1]
  /\ ret = NoRet
  /\ pulses = FullTravel
  /\ ~pressSeen
  /\ ~Pressed

\* ---- C20 ----
\* min(n/2, ACCEL_STEPS), the length of each ramp of an n-step move, with
\* n/2 rounded down and rounded up
RampLen(n) == IF n \div 2 < ACCEL_STEPS THEN n \div 2 ELSE ACCEL_STEPS
RampLenUp(n) == IF (n + 1) \div 2 < ACCEL_STEPS THEN (n + 1) \div 2 ELSE ACCEL_STEPS

\* C20: in moveAxis and doSteps the first delay is the start delay; between
\* two consecutive steps that both lie in the first min(n/2, ACCEL_STEPS)
\* steps the delay does not rise; on every step between the two ramps it is
\* the target delay; and between two consecutive steps that both lie in the
\* last min(n/2, ACCEL_STEPS) steps it does not fall.
C20_RampShape ==
  [][ (pc \in {"moveAxis_loop", "doSteps_loop"} /\ stepCount' = stepCount + 1) =>
        /\ stepCount = 0 => currentDelay' = START_SPEED_DELAY
        /\ (0 < stepCount /\ stepCount < RampLen(steps)) =>
             currentDelay' <= currentDelay
        /\ (RampLenUp(steps) <= stepCount /\ stepCount < steps - RampLenUp(steps)) =>
             currentDelay' = IF pc = "moveAxis_loop" THEN NORMAL_SPEED_DELAY
                                                     ELSE TEST_SPEED_DELAY
        /\ (0 < stepCount /\ stepCount > steps - RampLen(steps)) =>
             currentDelay' >= currentDelay ]_vars

\* ---- C21 ----
\* the target delay of the move the program is in
TargetDelay ==
  IF pc \in HomingPcs THEN HOMING_SPEED_DELAY
  ELSE IF pc \in TestPcs THEN TEST_SPEED_DELAY
  ELSE NORMAL_SPEED_DELAY

\* C21: every delay that moveAxis, moveAxisToLimit and homeAxis compute, for
\* every step count and step index, lies between the target delay of the move
\* and START_SPEED_DELAY inclusive; the value stored in the 16-bit
\* currentDelay is the value computed, so nothing went negative or wrapped.
C21_DelayBounds ==
  [][ (pc \in PrimitivePcs /\ stepCount' = stepCount + 1) =>
        /\ TargetDelay <= currentDelay'
        /\ currentDelay' <= START_SPEED_DELAY ]_vars

\* a 300-step moveAxis, whose two ramps overlap, has computed the delay of
\* its step 200, the first of the deceleration branch
C21_Witness ==
  /\ pc = "moveAxis_loop"
  /\ steps = 300
  /\ stepCount = 201
  /\ currentDelay = 2250

\* ---- C22 ----
SeekPcs == {"moveAxisToLimit_step", "homeAxis_step"}

\* C22: in moveAxisToLimit and homeAxis the delay of a step is never larger
\* than the delay of the step before it: the first step waits
\* START_SPEED_DELAY, every step from ACCEL_STEPS on waits the cruise delay of
\* the move, and no step of either move waits less than its cruise delay, so
\* no homing step is faster than HOMING_SPEED_DELAY.
C22_SeekNeverRampsDown ==
  [][ (pc \in SeekPcs /\ stepCount' = stepCount + 1) =>
        /\ (stepCount = 0) => (currentDelay' = START_SPEED_DELAY)
        /\ (stepCount > 0) => (currentDelay' <= currentDelay)
        /\ (stepCount >= ACCEL_STEPS) => (currentDelay' = TargetDelay)
        /\ (stepCount < ACCEL_STEPS) => (currentDelay' > TargetDelay)
        /\ (pc = "homeAxis_step") => (currentDelay' >= HOMING_SPEED_DELAY) ]_vars

\* homeAxis has made 300 steps and the last of them waited the cruise delay
C22_Witness ==
  /\ pc = "homeAxis_step"
  /\ stepCount = 300
  /\ currentDelay = HOMING_SPEED_DELAY

\* ---- C23 ----
\* moveAxis returns normally: the for loop ran to its end
MoveAxisReturns == pc = "moveAxis_loop" /\ pc' \in {"moveAxis", "wait_release"}

\* C23: a moveAxis call that is not cut short by the E-stop emits exactly
\* `steps` pulses on its own axis and none on the other axis, whatever the two
\* limit inputs read (it never reads either of them), and sets the
\* last-activity timestamp when it returns.
C23_FixedMoveIgnoresLimits ==
  [][ /\ (pc = "moveAxis_loop") =>
           /\ \A a \in Axes \ {axis} : pulses'[a] = pulses[a]
           /\ entryRead' = "none" /\ lastRead' = "none"
      /\ MoveAxisReturns =>
           /\ steps = TravelSteps(axis)
           /\ pulses[axis] = steps
           /\ pulses' = pulses
           /\ idleTime' = 0 ]_vars

\* both moves of an extend have returned with the full pulse counts although
\* both limit switches were asserted from power-up on
C23_Witness ==
  /\ pc = "wait_release"
  /\ limitsHeld
  /\ pulses["Y"] = YTravelSteps
  /\ pulses["X"] = XTravelSteps
  /\ ret = [a \in Axes |-> "done"]
  /\ idleTime = 0

\* ---- C24 ----
\* C24: once setup has driven the enable pins, the motorsEnabled flag is true
\* exactly when the shared enable line is at its active (LOW) level, after
\* enableMotors, disableMotors and emergencyStop alike.
C24_FlagTracksEnablePin ==
  (pc # "setup") => (motorsEnabled <=> (enablePin = "LOW"))

\* ---- C25 ----
\* a step pulse on an axis whose direction pin points away from its limit switch
AwayPulse == \E a \in Axes : PulseOn(a) /\ dirPin[a] = DirFromLimit(a)

\* C25: with TEST_MODE false, extendSequence is entered only from the READY
\* dispatch with isHomed true, isHomed stays true for as long as the extend
\* moves run, and every step away from a limit switch (Y up, X out) is a step
\* of such a move; a press accepted in READY with isHomed false starts
\* performHoming and nothing else.
C25_ExtendOnlyWhenHomed ==
  [][ ~testMode =>
        /\ (pc # "extendSequence" /\ pc' = "extendSequence") =>
              (pc = "ready_release" /\ isHomed)
        /\ (pc \in ExtendPcs /\ pc' \in ExtendPcs) => (isHomed /\ isHomed')
        /\ AwayPulse => (pc \in ExtendPcs /\ isHomed)
        /\ (pc = "ready_release" /\ pc' # pc /\ ~isHomed) =>
              (pc' = "performHoming" /\ currentState' = "HOMING") ]_vars

\* without auto-homing the first press could only home; a later press was
\* accepted with isHomed true and the elevation axis has been raised
C25_Witness ==
  /\ ~testMode
  /\ ~autoHoming
  /\ pc = "moveAxis_loop"
  /\ axis = "Y"
  /\ pulses["Y"] = YTravelSteps
  /\ isHomed

=========================================================================
